---- MODULE Spec2Model ----
(***************************************************************************)
(* A model of eventtracer (src/eventtracer/__init__.py): the EventTracer   *)
(* class with its two sinks (in-memory buffer, streaming file), the depth  *)
(* map behind clear(), and the perpetual-array trace file that flush() and *)
(* the streaming writer grow.  File contents are sequences of characters;  *)
(* the JSON text of one event dict is kept as one token holding the JSON   *)
(* value, every other character ("[", "]", ",", " ", newline) is itself.   *)
(***************************************************************************)
EXTENDS Integers, Sequences, FiniteSets, TLC

\* ------------------------------------------------------------------ bounds

\* Calls made in one behaviour of Spec (two tracers, core operations).
MaxCalls == 5
\* Calls made in one behaviour of SpecEmit (one tracer, every operation).
MaxEmitCalls == 3
\* Calls made in one behaviour of SpecDepth (one tracer, begin/end/clear/fork).
MaxDepthCalls == 6
\* Calls made in one behaviour of SpecRecord (one tracer, every input).
MaxRecordCalls == 1
\* Calls (emissions, flushes) made in one behaviour of SpecRace.
MaxRaceCalls == 4

\* ------------------------------------------------------------ Python values

None == [t |-> "None"]
PyStr(s) == [t |-> "str", v |-> s]
PyInt(i) == [t |-> "int", v |-> i]
PyDict(f) == [t |-> "dict", v |-> f]
PyList(s) == [t |-> "list", v |-> s]
\* A value json.dumps cannot encode (object(), a set, ...).
PyObject == [t |-> "object"]

EmptyDict == PyDict([k \in {} |-> None])

\* ------------------------------------------------------------------- json

RECURSIVE json_serializable(_)
json_serializable(v) ==
    CASE v.t = "object" -> FALSE
      [] v.t = "dict" -> \A k \in DOMAIN v.v : json_serializable(v.v[k])
      [] v.t = "list" -> \A i \in DOMAIN v.v : json_serializable(v.v[i])
      [] OTHER -> TRUE

\* The JSON value json.dumps writes for a Python value.
RECURSIVE json_value(_)
json_value(v) ==
    CASE v.t = "None" -> [j |-> "null"]
      [] v.t = "str" -> [j |-> "string", v |-> v.v]
      [] v.t = "int" -> [j |-> "number", v |-> v.v]
      [] v.t = "dict" -> [j |-> "object", v |-> [k \in DOMAIN v.v |-> json_value(v.v[k])]]

\* The Python value json.loads builds from a JSON value.
RECURSIVE python_value(_)
python_value(j) ==
    CASE j.j = "null" -> None
      [] j.j = "string" -> PyStr(j.v)
      [] j.j = "number" -> PyInt(j.v)
      [] j.j = "object" -> PyDict([k \in DOMAIN j.v |-> python_value(j.v[k])])

Ch(c) == [c |-> c]
ObjTok(d) == [o |-> json_value(d)]
IsObj(tok) == "o" \in DOMAIN tok
IsCh(tok, c) == "c" \in DOMAIN tok /\ tok.c = c

RECURSIVE json_dumps_items(_)
json_dumps_items(s) ==
    IF Len(s) = 0 THEN <<>>
    ELSE IF Len(s) = 1 THEN <<ObjTok(s[1])>>
    ELSE <<ObjTok(s[1]), Ch(","), Ch(" ")>> \o json_dumps_items(Tail(s))

\* json.dumps of a dict (one object token) or of a list of dicts.
json_dumps(v) ==
    IF v.t = "list" THEN <<Ch("[")>> \o json_dumps_items(v.v) \o <<Ch("]")>>
    ELSE <<ObjTok(v)>>

IsSpace(tok) == IsCh(tok, " ") \/ IsCh(tok, "\n")

\* json.loads of a text: the list of dicts it denotes, or ok = FALSE when
\* the text is not one JSON array of objects.
json_loads(text) ==
    LET toks == SelectSeq(text, LAMBDA k : ~IsSpace(k))
        n == Len(toks)
        inner == SubSeq(toks, 2, n - 1)
        m == Len(inner)
        wellformed ==
            /\ n >= 2
            /\ IsCh(toks[1], "[")
            /\ IsCh(toks[n], "]")
            /\ (m = 0 \/ m % 2 = 1)
            /\ \A i \in 1..m : IF i % 2 = 1 THEN IsObj(inner[i]) ELSE IsCh(inner[i], ",")
    IN IF wellformed
       THEN [ok |-> TRUE,
             v |-> [i \in 1..((m + 1) \div 2) |-> python_value(inner[2 * i - 1].o)]]
       ELSE [ok |-> FALSE, v |-> <<>>]

\* The dicts in a text, in order.
DictsIn(text) ==
    LET objs == SelectSeq(text, IsObj)
    IN [i \in 1..Len(objs) |-> python_value(objs[i].o)]

\* data[:-2] + "\n]", as a reader of a trace file finalizes it.
finished_data(data) ==
    SubSeq(data, 1, Len(data) - 2) \o <<Ch("\n"), Ch("]")>>

\* ------------------------------------------------------------------ state

Tracers == {"et1", "et2"}
Pids == {4242, 4243}
Tids == {7001, 7002}
MainThread == CHOOSE i \in Tids : \A j \in Tids : i <= j
ParentPid == CHOOSE p \in Pids : \A q \in Pids : p <= q
TracePath == "trace.json"
Paths == {TracePath}

VARIABLES
    buffer,   \* self.buffer of each tracer: None or a list of event dicts
    fp,       \* self.fp of each tracer: None or an open file object
    depths,   \* self.depths of each tracer: pid -> open-span count
    pid,      \* getpid() of the process each tracer lives in
    files,    \* the file system: path -> [exists, data]
    clock,    \* int(time() * 1000000) at the next reading
    pc,       \* where each tracer's constructor or flush stands ("ready" between calls)
    frame,    \* the locals of each tracer's flush in progress: filename, encoded, fp
    ncalls,   \* history: calls made so far
    last,     \* history: the latest call, its inputs and how it ended
    calls,    \* history: the emission calls behind each buffer's records
    sent,     \* history: the emission calls whose records went to each path
    kinds,    \* history: the kinds of write each path has seen
    emitted,  \* history: every emission call made on a buffered tracer
    dropped,  \* history: whether a flush of the tracer failed after draining
    handed,   \* history: the dicts successful flushes handed to each path
    built     \* history: the file name each tracer was constructed with

real == <<buffer, fp, depths, pid, files, clock, pc, frame>>
hist == <<ncalls, last, calls, sent, kinds, emitted, dropped, handed, built>>
vars == <<buffer, fp, depths, pid, files, clock, pc, frame,
          ncalls, last, calls, sent, kinds, emitted, dropped, handed, built>>

\* The program state as one value, for the operations below.
World ==
    [buffer |-> buffer, fp |-> fp, depths |-> depths, pid |-> pid,
     files |-> files, clock |-> clock]

Ret(w, raised, made) == [w |-> w, raised |-> raised, made |-> made]

\* ------------------------------------------------------------ file objects

\* open(filename, "a") fails on the empty path (FileNotFoundError).
open_fails(filename) == filename = ""

\* open(filename, "a"): the file exists afterwards, its data untouched.
open_append(f) == [exists |-> TRUE, data |-> f.data]

file_object(filename) == [name |-> filename, pos |-> 0, wbuf |-> <<>>]

\* fp.seek(0, SEEK_END)
fp_seek_end(h, f) == [h EXCEPT !.pos = Len(f.data)]

\* fp.tell()
fp_tell(h) == h.pos

\* fp.write(text): into the file object's own buffer.
fp_write(h, text) == [h EXCEPT !.wbuf = @ \o text, !.pos = @ + Len(text)]

\* fp.flush(): the buffered text is appended to the file (O_APPEND).
fp_flush_file(h, f) == [f EXCEPT !.data = @ \o h.wbuf]
fp_flush(h) == [h EXCEPT !.wbuf = <<>>]

\* ------------------------------------------------------------- EventTracer

NoDepths == [p \in {} |-> 0]

\* `if filename:` -- None and the empty string are falsy.
truthy(filename) == IF filename = None THEN FALSE ELSE filename.v # ""

\* Lines 27-29: the fields every constructor call sets first.
init_fields(w, t) ==
    [w EXCEPT !.buffer[t] = None, !.fp[t] = None, !.depths[t] = NoDepths]

\* __init__ without the `if self.fp.tell() == 0` test: always writes "[".
init_always_opens_array(w, t, filename) ==
    LET w0 == init_fields(w, t)
    IN IF truthy(filename)
       THEN LET f0 == open_append(w0.files[filename.v])
                h1 == fp_seek_end(file_object(filename.v), f0)
                h2 == fp_write(h1, <<Ch("["), Ch("\n")>>)
            IN [w0 EXCEPT !.fp[t] = fp_flush(h2),
                          !.files[filename.v] = fp_flush_file(h2, f0)]
       ELSE [w0 EXCEPT !.buffer[t] = PyList(<<>>)]

\* EventTracer(filename), run from start to end with no other caller between.
__init__(w, t, filename) ==
    LET w0 == init_fields(w, t)
    IN IF truthy(filename)
       THEN LET f0 == open_append(w0.files[filename.v])
                h1 == fp_seek_end(file_object(filename.v), f0)
                h2 == IF fp_tell(h1) = 0
                      THEN fp_write(h1, <<Ch("["), Ch("\n")>>)
                      ELSE h1
            IN [w0 EXCEPT !.fp[t] = fp_flush(h2),
                          !.files[filename.v] = fp_flush_file(h2, f0)]
       ELSE [w0 EXCEPT !.buffer[t] = PyList(<<>>)]

\* event_dict with the base fields written last: ts is always the clock's.
event_dict_base_wins(ph, optionals, now, p, tid) ==
    LET base == [ph |-> PyStr(ph), ts |-> PyInt(now),
                 pid |-> PyInt(p), tid |-> PyInt(tid)]
        given == {k \in DOMAIN optionals : optionals[k] # None}
    IN PyDict([k \in DOMAIN base \cup given |->
                   IF k \in DOMAIN base THEN base[k] ELSE optionals[k]])

\* Lines 76-84: the event dict; an optional that is None is left out, one
\* that is given overrides the base field of the same name (complete's ts).
event_dict(ph, optionals, now, p, tid) ==
    LET base == [ph |-> PyStr(ph), ts |-> PyInt(now),
                 pid |-> PyInt(p), tid |-> PyInt(tid)]
        given == {k \in DOMAIN optionals : optionals[k] # None}
    IN PyDict([k \in DOMAIN base \cup given |->
                   IF k \in given THEN optionals[k] ELSE base[k]])

\* _log_event with `self.buffer = [d]` for `self.buffer.append(d)`.
_log_event_overwrites(w, t, ph, optionals, tid) ==
    LET d == event_dict(ph, optionals, w.clock, w.pid[t], tid)
        w1 == [w EXCEPT !.clock = @ + 1]
    IN IF w.fp[t] # None
       THEN IF ~json_serializable(d)
            THEN [w |-> w1, raised |-> "TypeError"]
            ELSE LET h == fp_write(w.fp[t], json_dumps(d) \o <<Ch(","), Ch("\n")>>)
                 IN [w |-> [w1 EXCEPT !.files[h.name] = fp_flush_file(h, @),
                                      !.fp[t] = fp_flush(h)],
                     raised |-> ""]
       ELSE [w |-> [w1 EXCEPT !.buffer[t] = PyList(<<d>>)], raised |-> ""]

\* Lines 75-90.  Reads the clock once; in streaming mode the dict is encoded
\* before anything is written, so an unencodable dict writes nothing.
_log_event(w, t, ph, optionals, tid) ==
    LET d == event_dict(ph, optionals, w.clock, w.pid[t], tid)
        w1 == [w EXCEPT !.clock = @ + 1]
    IN IF w.fp[t] # None
       THEN IF ~json_serializable(d)
            THEN [w |-> w1, raised |-> "TypeError"]
            ELSE LET h == fp_write(w.fp[t],
                              json_dumps(d) \o <<Ch(","), Ch("\n")>>)
                 IN [w |-> [w1 EXCEPT !.files[h.name] = fp_flush_file(h, @),
                                      !.fp[t] = fp_flush(h)],
                     raised |-> ""]
       ELSE [w |-> [w1 EXCEPT !.buffer[t] = PyList(Append(@.v, d))],
             raised |-> ""]

\* The call as the history records it: which operation, on which tracer,
\* at which clock reading.
Made(op, w, t) == <<[op |-> op, t |-> t, now |-> w.clock]>>

\* An operation that only logs one event.
log_only(op, w, t, ph, optionals, tid) ==
    LET r == _log_event(w, t, ph, optionals, tid)
    IN Ret(r.w, r.raised, Made(op, w, t))

\* begin on a depth map that all instances share (a class attribute): the
\* count goes up on every tracer.
begin_shared_depths(w, t, name, args, cat, tid) ==
    LET r == _log_event(w, t, "B", [name |-> name, cat |-> cat, args |-> args], tid)
        p == w.pid[t]
        d0 == IF p \in DOMAIN r.w.depths[t]
              THEN r.w.depths[t]
              ELSE (p :> 0) @@ r.w.depths[t]
    IN IF r.raised # ""
       THEN Ret(r.w, r.raised, Made("begin", w, t))
       ELSE Ret([r.w EXCEPT !.depths = [u \in DOMAIN @ |-> [d0 EXCEPT ![p] = @ + 1]]],
                "", Made("begin", w, t))

\* Lines 96-100.
begin(w, t, name, args, cat, tid) ==
    LET r == _log_event(w, t, "B", [name |-> name, cat |-> cat, args |-> args], tid)
        p == w.pid[t]
        d0 == IF p \in DOMAIN r.w.depths[t]
              THEN r.w.depths[t]
              ELSE (p :> 0) @@ r.w.depths[t]
    IN IF r.raised # ""
       THEN Ret(r.w, r.raised, Made("begin", w, t))
       ELSE Ret([r.w EXCEPT !.depths[t] = [d0 EXCEPT ![p] = @ + 1]], "",
                Made("begin", w, t))

\* Lines 102-104: the event is logged before the depth entry is looked up.
end(w, t, name, args, cat, tid) ==
    LET r == _log_event(w, t, "E", [name |-> name, cat |-> cat, args |-> args], tid)
        p == w.pid[t]
    IN IF r.raised # ""
       THEN Ret(r.w, r.raised, Made("end", w, t))
       ELSE IF p \notin DOMAIN r.w.depths[t]
       THEN Ret(r.w, "KeyError", Made("end", w, t))
       ELSE Ret([r.w EXCEPT !.depths[t][p] = @ - 1], "", Made("end", w, t))

\* clear_loop with `>= 0` for `> 0`: one end() more than there are open spans.
RECURSIVE clear_loop_through_zero(_, _, _)
clear_loop_through_zero(w, t, tid) ==
    IF w.depths[t][w.pid[t]] >= 0
    THEN LET r == end(w, t, None, None, None, tid)
         IN IF r.raised # ""
            THEN r
            ELSE LET r2 == clear_loop_through_zero(r.w, t, tid)
                 IN Ret(r2.w, r2.raised, r.made \o r2.made)
    ELSE Ret(w, "", <<>>)

\* Lines 55-56: while self.depths[p] > 0: self.end()
RECURSIVE clear_loop(_, _, _)
clear_loop(w, t, tid) ==
    IF w.depths[t][w.pid[t]] > 0
    THEN LET r == end(w, t, None, None, None, tid)
         IN IF r.raised # ""
            THEN r
            ELSE LET r2 == clear_loop(r.w, t, tid)
                 IN Ret(r2.w, r2.raised, r.made \o r2.made)
    ELSE Ret(w, "", <<>>)

\* clear with `if` for `while`: one end() at most.
clear_ends_once(w, t, tid) ==
    IF w.pid[t] \notin DOMAIN w.depths[t]
    THEN Ret(w, "", <<>>)
    ELSE IF w.depths[t][w.pid[t]] > 0
    THEN end(w, t, None, None, None, tid)
    ELSE Ret(w, "", <<>>)

\* Lines 50-56.
clear(w, t, tid) ==
    IF w.pid[t] \notin DOMAIN w.depths[t]
    THEN Ret(w, "", <<>>)
    ELSE clear_loop(w, t, tid)

\* flush_text without `encoded = encoded[1:]`: every flush keeps its "[".
flush_text_keeps_bracket(encoded, pos) ==
    SubSeq(encoded, 1, Len(encoded) - 1) \o <<Ch(","), Ch("\n")>>

\* Lines 68-70: the text flush writes, given the position tell() reported.
flush_text(encoded, pos) ==
    LET e1 == IF pos # 0 THEN Tail(encoded) ELSE encoded
    IN SubSeq(e1, 1, Len(e1) - 1) \o <<Ch(","), Ch("\n")>>

\* flush with `return` for the `raise` of line 60.
flush_returns_unbuffered(w, t, filename) ==
    IF w.buffer[t] = None
    THEN Ret(w, "", <<>>)
    ELSE IF ~json_serializable(w.buffer[t])
    THEN Ret(w, "TypeError", <<>>)
    ELSE LET encoded == json_dumps(w.buffer[t])
             w1 == [w EXCEPT !.buffer[t] = PyList(<<>>)]
         IN IF open_fails(filename.v)
            THEN Ret(w1, "FileNotFoundError", <<>>)
            ELSE LET f0 == open_append(w1.files[filename.v])
                     h1 == fp_seek_end(file_object(filename.v), f0)
                     h2 == fp_write(h1, flush_text(encoded, fp_tell(h1)))
                 IN Ret([w1 EXCEPT !.files[filename.v] = fp_flush_file(h2, f0)],
                        "", <<>>)

\* flush without `self.buffer = []`: the buffer keeps what was written.
flush_keeps_buffer(w, t, filename) ==
    IF w.buffer[t] = None
    THEN Ret(w, "Exception", <<>>)
    ELSE IF ~json_serializable(w.buffer[t])
    THEN Ret(w, "TypeError", <<>>)
    ELSE LET encoded == json_dumps(w.buffer[t])
         IN IF open_fails(filename.v)
            THEN Ret(w, "FileNotFoundError", <<>>)
            ELSE LET f0 == open_append(w.files[filename.v])
                     h1 == fp_seek_end(file_object(filename.v), f0)
                     h2 == fp_write(h1, flush_text(encoded, fp_tell(h1)))
                 IN Ret([w EXCEPT !.files[filename.v] = fp_flush_file(h2, f0)],
                        "", <<>>)

\* flush with `self.buffer = None` for `self.buffer = []`.
flush_unsets_buffer(w, t, filename) ==
    IF w.buffer[t] = None
    THEN Ret(w, "Exception", <<>>)
    ELSE IF ~json_serializable(w.buffer[t])
    THEN Ret(w, "TypeError", <<>>)
    ELSE LET encoded == json_dumps(w.buffer[t])
             w1 == [w EXCEPT !.buffer[t] = None]
         IN IF open_fails(filename.v)
            THEN Ret(w1, "FileNotFoundError", <<>>)
            ELSE LET f0 == open_append(w1.files[filename.v])
                     h1 == fp_seek_end(file_object(filename.v), f0)
                     h2 == fp_write(h1, flush_text(encoded, fp_tell(h1)))
                 IN Ret([w1 EXCEPT !.files[filename.v] = fp_flush_file(h2, f0)],
                        "", <<>>)

\* Lines 58-73, run from start to end with no other caller between.
flush(w, t, filename) ==
    IF w.buffer[t] = None
    THEN Ret(w, "Exception", <<>>)
    ELSE IF ~json_serializable(w.buffer[t])
    THEN Ret(w, "TypeError", <<>>)
    ELSE LET encoded == json_dumps(w.buffer[t])
             w1 == [w EXCEPT !.buffer[t] = PyList(<<>>)]
         IN IF open_fails(filename.v)
            THEN Ret(w1, "FileNotFoundError", <<>>)
            ELSE LET f0 == open_append(w1.files[filename.v])
                     h1 == fp_seek_end(file_object(filename.v), f0)
                     h2 == fp_write(h1, flush_text(encoded, fp_tell(h1)))
                 IN Ret([w1 EXCEPT !.files[filename.v] = fp_flush_file(h2, f0)],
                        "", <<>>)

\* Lines 106-116.
complete(w, t, start, duration, name, args, cat, tid) ==
    log_only("complete", w, t, "X",
             [ts |-> start, dur |-> duration, name |-> name, cat |-> cat, args |-> args],
             tid)

\* Lines 118-122.
instant(w, t, name, scope, args, cat, tid) ==
    log_only("instant", w, t, "I",
             [name |-> name, cat |-> cat, scope |-> scope, args |-> args], tid)

\* Lines 124-125.
counter(w, t, name, args, cat, tid) ==
    log_only("counter", w, t, "C", [name |-> name, cat |-> cat, args |-> args], tid)

\* Lines 127-130.
async_start(w, t, name, id, args, cat, tid) ==
    log_only("async_start", w, t, "b",
             [name |-> name, id |-> id, cat |-> cat, args |-> args], tid)

\* Lines 132-135.
async_instant(w, t, name, id, args, cat, tid) ==
    log_only("async_instant", w, t, "n",
             [name |-> name, id |-> id, cat |-> cat, args |-> args], tid)

\* Lines 137-140.
async_end(w, t, name, id, args, cat, tid) ==
    log_only("async_end", w, t, "e",
             [name |-> name, id |-> id, cat |-> cat, args |-> args], tid)

\* Lines 142-145.
flow_start(w, t, name, id, args, cat, tid) ==
    log_only("flow_start", w, t, "s",
             [name |-> name, id |-> id, cat |-> cat, args |-> args], tid)

\* Lines 147-150.
flow_instant(w, t, name, id, args, cat, tid) ==
    log_only("flow_instant", w, t, "t",
             [name |-> name, id |-> id, cat |-> cat, args |-> args], tid)

\* Lines 152-155.
flow_end(w, t, name, id, args, cat, tid) ==
    log_only("flow_end", w, t, "f",
             [name |-> name, id |-> id, cat |-> cat, args |-> args], tid)

\* Lines 160-170.
object_created(w, t, name, id, args, cat, scope, tid) ==
    log_only("object_created", w, t, "N",
             [name |-> name, id |-> id, cat |-> cat, args |-> args, scope |-> scope], tid)

\* Lines 172-182.
object_snapshot(w, t, name, id, args, cat, scope, tid) ==
    log_only("object_snapshot", w, t, "O",
             [name |-> name, id |-> id, cat |-> cat, args |-> args, scope |-> scope], tid)

\* Lines 184-194.
object_destroyed(w, t, name, id, args, cat, scope, tid) ==
    log_only("object_destroyed", w, t, "D",
             [name |-> name, id |-> id, cat |-> cat, args |-> args, scope |-> scope], tid)

\* Lines 196-197.
metadata(w, t, name, args, tid) ==
    log_only("metadata", w, t, "M", [name |-> name, args |-> args], tid)

\* Lines 203-204.
mark(w, t, name, args, cat, tid) ==
    log_only("mark", w, t, "R", [name |-> name, cat |-> cat, args |-> args], tid)

\* Lines 206-211: args is always a dict here, built from the two parameters.
clock_sync(w, t, name, sync_id, issue_ts, tid) ==
    log_only("clock_sync", w, t, "c",
             [name |-> name,
              args |-> PyDict([sync_id |-> sync_id, issue_ts |-> issue_ts])], tid)

\* Lines 213-214.
context_enter(w, t, name, id, tid) ==
    log_only("context_enter", w, t, "(", [name |-> name, id |-> id], tid)

\* Lines 216-217.
context_leave(w, t, name, id, tid) ==
    log_only("context_leave", w, t, ")", [name |-> name, id |-> id], tid)

\* os.fork() as the child sees it: the same object, another getpid().
fork(w, t) ==
    Ret([w EXCEPT !.pid[t] = CHOOSE q \in Pids : q # w.pid[t]], "", <<>>)

\* ---------------------------------------------------------------- history

\* One whole call: the program state becomes r.w, and the history takes note
\* of the call, of how it ended and of where its records went.
Do(op, t, inp, r) ==
    /\ buffer' = r.w.buffer
    /\ fp' = r.w.fp
    /\ depths' = r.w.depths
    /\ pid' = r.w.pid
    /\ files' = r.w.files
    /\ clock' = r.w.clock
    /\ UNCHANGED <<pc, frame, built>>
    /\ ncalls' = ncalls + 1
    /\ last' = [op |-> op, t |-> t, in |-> inp, raised |-> r.raised, made |-> r.made]
    /\ LET buffered == buffer[t] # None
           streaming == fp[t] # None
           drained == op = "flush" /\ r.raised \in {"", "FileNotFoundError"}
           flushed == op = "flush" /\ r.raised = ""
           written == IF r.raised = "TypeError" THEN <<>> ELSE r.made
       IN /\ calls' = [calls EXCEPT ![t] =
                          IF ~buffered THEN @
                          ELSE IF drained THEN <<>> ELSE @ \o r.made]
          /\ emitted' = [emitted EXCEPT ![t] = IF buffered THEN @ \o r.made ELSE @]
          /\ dropped' = [dropped EXCEPT ![t] =
                          @ \/ (buffered /\ op = "flush" /\ r.raised = "FileNotFoundError")]
          /\ sent' = IF flushed /\ buffered
                     THEN [sent EXCEPT ![inp.filename.v] = @ \o calls[t]]
                     ELSE IF streaming
                     THEN [sent EXCEPT ![fp[t].name] = @ \o written]
                     ELSE sent
          /\ handed' = IF flushed /\ buffered
                       THEN [handed EXCEPT ![inp.filename.v] = @ \o buffer[t].v]
                       ELSE handed
          /\ kinds' = IF flushed /\ buffered
                      THEN [kinds EXCEPT ![inp.filename.v] =
                              @ \cup {IF Len(calls[t]) = 0 THEN "emptyflush" ELSE "flush"}]
                      ELSE IF streaming /\ Len(written) > 0
                      THEN [kinds EXCEPT ![fp[t].name] = @ \cup {"emit"}]
                      ELSE kinds

\* ------------------------------------------------------------------- calls

Ready(t) == pc[t] = "ready"

Call_begin(t, name, args, cat, tid) ==
    /\ Ready(t)
    /\ Do("begin", t, [name |-> name, args |-> args, cat |-> cat, tid |-> tid],
          begin(World, t, name, args, cat, tid))

Call_end(t, name, args, cat, tid) ==
    /\ Ready(t)
    /\ Do("end", t, [name |-> name, args |-> args, cat |-> cat, tid |-> tid],
          end(World, t, name, args, cat, tid))

Call_clear(t, tid) ==
    /\ Ready(t)
    /\ Do("clear", t, [tid |-> tid], clear(World, t, tid))

Call_flush(t, filename) ==
    /\ Ready(t)
    /\ Do("flush", t, [filename |-> filename], flush(World, t, filename))

Call_fork(t) ==
    /\ Ready(t)
    /\ pid[t] = ParentPid
    /\ Do("fork", t, [parent |-> pid[t]], fork(World, t))

Call_complete(t, start, duration, name, args, cat, tid) ==
    /\ Ready(t)
    /\ Do("complete", t,
          [start |-> start, duration |-> duration, name |-> name, args |-> args,
           cat |-> cat, tid |-> tid],
          complete(World, t, start, duration, name, args, cat, tid))

Call_instant(t, name, scope, args, cat, tid) ==
    /\ Ready(t)
    /\ Do("instant", t,
          [name |-> name, scope |-> scope, args |-> args, cat |-> cat, tid |-> tid],
          instant(World, t, name, scope, args, cat, tid))

Call_counter(t, name, args, cat, tid) ==
    /\ Ready(t)
    /\ Do("counter", t, [name |-> name, args |-> args, cat |-> cat, tid |-> tid],
          counter(World, t, name, args, cat, tid))

Call_async_start(t, name, id, args, cat, tid) ==
    /\ Ready(t)
    /\ Do("async_start", t,
          [name |-> name, id |-> id, args |-> args, cat |-> cat, tid |-> tid],
          async_start(World, t, name, id, args, cat, tid))

Call_async_instant(t, name, id, args, cat, tid) ==
    /\ Ready(t)
    /\ Do("async_instant", t,
          [name |-> name, id |-> id, args |-> args, cat |-> cat, tid |-> tid],
          async_instant(World, t, name, id, args, cat, tid))

Call_async_end(t, name, id, args, cat, tid) ==
    /\ Ready(t)
    /\ Do("async_end", t,
          [name |-> name, id |-> id, args |-> args, cat |-> cat, tid |-> tid],
          async_end(World, t, name, id, args, cat, tid))

Call_flow_start(t, name, id, args, cat, tid) ==
    /\ Ready(t)
    /\ Do("flow_start", t,
          [name |-> name, id |-> id, args |-> args, cat |-> cat, tid |-> tid],
          flow_start(World, t, name, id, args, cat, tid))

Call_flow_instant(t, name, id, args, cat, tid) ==
    /\ Ready(t)
    /\ Do("flow_instant", t,
          [name |-> name, id |-> id, args |-> args, cat |-> cat, tid |-> tid],
          flow_instant(World, t, name, id, args, cat, tid))

Call_flow_end(t, name, id, args, cat, tid) ==
    /\ Ready(t)
    /\ Do("flow_end", t,
          [name |-> name, id |-> id, args |-> args, cat |-> cat, tid |-> tid],
          flow_end(World, t, name, id, args, cat, tid))

Call_object_created(t, name, id, args, cat, scope, tid) ==
    /\ Ready(t)
    /\ Do("object_created", t,
          [name |-> name, id |-> id, args |-> args, cat |-> cat, scope |-> scope,
           tid |-> tid],
          object_created(World, t, name, id, args, cat, scope, tid))

Call_object_snapshot(t, name, id, args, cat, scope, tid) ==
    /\ Ready(t)
    /\ Do("object_snapshot", t,
          [name |-> name, id |-> id, args |-> args, cat |-> cat, scope |-> scope,
           tid |-> tid],
          object_snapshot(World, t, name, id, args, cat, scope, tid))

Call_object_destroyed(t, name, id, args, cat, scope, tid) ==
    /\ Ready(t)
    /\ Do("object_destroyed", t,
          [name |-> name, id |-> id, args |-> args, cat |-> cat, scope |-> scope,
           tid |-> tid],
          object_destroyed(World, t, name, id, args, cat, scope, tid))

Call_metadata(t, name, args, tid) ==
    /\ Ready(t)
    /\ Do("metadata", t, [name |-> name, args |-> args, tid |-> tid],
          metadata(World, t, name, args, tid))

Call_mark(t, name, args, cat, tid) ==
    /\ Ready(t)
    /\ Do("mark", t, [name |-> name, args |-> args, cat |-> cat, tid |-> tid],
          mark(World, t, name, args, cat, tid))

Call_clock_sync(t, name, sync_id, issue_ts, tid) ==
    /\ Ready(t)
    /\ Do("clock_sync", t,
          [name |-> name, sync_id |-> sync_id, issue_ts |-> issue_ts, tid |-> tid],
          clock_sync(World, t, name, sync_id, issue_ts, tid))

Call_context_enter(t, name, id, tid) ==
    /\ Ready(t)
    /\ Do("context_enter", t, [name |-> name, id |-> id, tid |-> tid],
          context_enter(World, t, name, id, tid))

Call_context_leave(t, name, id, tid) ==
    /\ Ready(t)
    /\ Do("context_leave", t, [name |-> name, id |-> id, tid |-> tid],
          context_leave(World, t, name, id, tid))


\* ---------------------------------------------------------- specifications

\* No flush in progress.
NoFrame == [filename |-> None, encoded |-> <<>>, fp |-> None]

\* Before any constructor has run.
Unbuilt ==
    [buffer |-> [t \in Tracers |-> None],
     fp |-> [t \in Tracers |-> None],
     depths |-> [t \in Tracers |-> NoDepths],
     pid |-> [t \in Tracers |-> ParentPid],
     files |-> [p \in Paths |-> [exists |-> FALSE, data |-> <<>>]],
     clock |-> 1000]

\* The state once the tracers of `names` (a function tracer -> file name)
\* have been constructed, et1 before et2.
Built(w, names) ==
    LET w1 == IF "et1" \in DOMAIN names THEN __init__(w, "et1", names["et1"]) ELSE w
    IN IF "et2" \in DOMAIN names THEN __init__(w1, "et2", names["et2"]) ELSE w1

InitWith(w0, names) ==
    LET w == Built(w0, names)
    IN /\ buffer = w.buffer
       /\ fp = w.fp
       /\ depths = w.depths
       /\ pid = w.pid
       /\ files = w.files
       /\ clock = w.clock
       /\ pc = [t \in Tracers |-> IF t \in DOMAIN names THEN "ready" ELSE "new"]
       /\ frame = [t \in Tracers |-> NoFrame]
       /\ ncalls = 0
       /\ last = [op |-> "__init__", t |-> "et1", in |-> <<>>, raised |-> "", made |-> <<>>]
       /\ calls = [t \in Tracers |-> <<>>]
       /\ sent = [p \in Paths |-> <<>>]
       /\ kinds = [p \in Paths |-> IF w.files[p].exists THEN {"open"} ELSE {}]
       /\ emitted = [t \in Tracers |-> <<>>]
       /\ dropped = [t \in Tracers |-> FALSE]
       /\ handed = [p \in Paths |-> <<>>]
       /\ built = [t \in Tracers |-> IF t \in DOMAIN names THEN names[t] ELSE None]

Filenames == {None, PyStr(""), PyStr(TracePath)}
FlushNames == {PyStr(TracePath), PyStr("")}

\* Two tracers, constructed one after the other, then whole calls of the
\* core operations in any order.
Init ==
    \E fn1 \in Filenames, fn2 \in Filenames \ {PyStr("")} :
        InitWith(Unbuilt, [t \in Tracers |-> IF t = "et1" THEN fn1 ELSE fn2])

\* A behaviour of Spec makes at most MaxCalls calls.
More == ncalls < MaxCalls

\* An args dict json.dumps cannot encode: {"x": object()}.
BadArgs == PyDict([x |-> PyObject])

Next ==
    \E t \in Tracers :
          \/ \E args \in {None, BadArgs} :
                More /\ Call_begin(t, PyStr("a"), args, None, MainThread)
          \/ More /\ Call_end(t, None, None, None, MainThread)
          \/ More /\ Call_clear(t, MainThread)
          \/ \E fn \in FlushNames : More /\ Call_flush(t, fn)

Spec == Init /\ [][Next]_vars

\* One tracer (buffered or streaming), every operation with one
\* representative input, in any order.
A == PyStr("a")

InitEmit ==
    \E fn \in {None, PyStr(TracePath)} : InitWith(Unbuilt, [t \in {"et1"} |-> fn])

\* A behaviour of SpecEmit makes at most MaxEmitCalls calls.
MoreEmit == ncalls < MaxEmitCalls

NextEmit ==
    \E t \in {"et1"} :
          \/ MoreEmit /\ Call_begin(t, A, None, None, MainThread)
          \/ MoreEmit /\ Call_end(t, None, None, None, MainThread)
          \/ MoreEmit /\ Call_complete(t, PyInt(0), PyInt(50), A, None, None, MainThread)
          \/ MoreEmit /\ Call_instant(t, A, None, None, None, MainThread)
          \/ MoreEmit /\ Call_counter(t, A, None, None, MainThread)
          \/ MoreEmit /\ Call_async_start(t, A, None, None, None, MainThread)
          \/ MoreEmit /\ Call_async_instant(t, A, None, None, None, MainThread)
          \/ MoreEmit /\ Call_async_end(t, A, None, None, None, MainThread)
          \/ MoreEmit /\ Call_flow_start(t, A, None, None, None, MainThread)
          \/ MoreEmit /\ Call_flow_instant(t, A, None, None, None, MainThread)
          \/ MoreEmit /\ Call_flow_end(t, A, None, None, None, MainThread)
          \/ MoreEmit /\ Call_object_created(t, A, None, None, None, None, MainThread)
          \/ MoreEmit /\ Call_object_snapshot(t, A, None, None, None, None, MainThread)
          \/ MoreEmit /\ Call_object_destroyed(t, A, None, None, None, None, MainThread)
          \/ MoreEmit /\ Call_metadata(t, A, None, MainThread)
          \/ MoreEmit /\ Call_mark(t, A, None, None, MainThread)
          \/ MoreEmit /\ Call_clock_sync(t, A, None, None, MainThread)
          \/ MoreEmit /\ Call_context_enter(t, A, None, MainThread)
          \/ MoreEmit /\ Call_context_leave(t, A, None, MainThread)
          \/ MoreEmit /\ Call_clear(t, MainThread)
          \/ MoreEmit /\ Call_flush(t, PyStr(TracePath))

SpecEmit == InitEmit /\ [][NextEmit]_vars

\* One tracer, the operations that touch the depth map, and a fork.
InitDepth == InitEmit

\* A behaviour of SpecDepth makes at most MaxDepthCalls calls.
MoreDepth == ncalls < MaxDepthCalls

NextDepth ==
    \E t \in {"et1"} :
          \/ MoreDepth /\ Call_begin(t, A, None, None, MainThread)
          \/ MoreDepth /\ Call_end(t, None, None, None, MainThread)
          \/ MoreDepth /\ Call_clear(t, MainThread)
          \/ MoreDepth /\ Call_fork(t)

SpecDepth == InitDepth /\ [][NextDepth]_vars

\* One tracer and one call, over every combination of the call's optional
\* parameters, absent (None), falsy and truthy.
Names == {None, PyStr(""), A}
BeginNames == {PyStr(""), A}
Cats == {None, PyStr("")}
ArgsSet == {None, EmptyDict}
CounterArgs == {None, EmptyDict, PyDict([hits |-> PyInt(0)])}
Ids == {None, PyStr("my_id")}
Scopes == {None, PyStr("")}
Starts == {PyInt(0), PyInt(1000)}
Durations == {PyInt(0), PyInt(50)}
SyncIds == {None, PyStr("sync_id")}
IssueTs == {None, PyInt(12345)}

InitRecord == InitEmit

\* A behaviour of SpecRecord makes at most MaxRecordCalls calls.
MoreRecord == ncalls < MaxRecordCalls

NextRecord ==
    \E t \in {"et1"}, name \in Names, cat \in Cats, args \in ArgsSet,
          id \in Ids, scope \in Scopes :
          \/ \E tid \in Tids : name # None /\ id = None /\ scope = None
                /\ MoreRecord /\ Call_begin(t, name, args, cat, tid)
          \/ \E tid \in Tids : id = None /\ scope = None
                /\ MoreRecord /\ Call_end(t, name, args, cat, tid)
          \/ \E start \in Starts, duration \in Durations : id = None /\ scope = None
                /\ MoreRecord /\ Call_complete(t, start, duration, name, args, cat, MainThread)
          \/ id = None /\ MoreRecord /\ Call_instant(t, name, scope, args, cat, MainThread)
          \/ \E cargs \in CounterArgs : id = None /\ scope = None /\ args = None
                /\ MoreRecord /\ Call_counter(t, name, cargs, cat, MainThread)
          \/ scope = None /\ MoreRecord /\ Call_async_start(t, name, id, args, cat, MainThread)
          \/ scope = None /\ MoreRecord /\ Call_async_instant(t, name, id, args, cat, MainThread)
          \/ scope = None /\ MoreRecord /\ Call_async_end(t, name, id, args, cat, MainThread)
          \/ scope = None /\ MoreRecord /\ Call_flow_start(t, name, id, args, cat, MainThread)
          \/ scope = None /\ MoreRecord /\ Call_flow_instant(t, name, id, args, cat, MainThread)
          \/ scope = None /\ MoreRecord /\ Call_flow_end(t, name, id, args, cat, MainThread)
          \/ MoreRecord /\ Call_object_created(t, name, id, args, cat, scope, MainThread)
          \/ MoreRecord /\ Call_object_snapshot(t, name, id, args, cat, scope, MainThread)
          \/ MoreRecord /\ Call_object_destroyed(t, name, id, args, cat, scope, MainThread)
          \/ id = None /\ scope = None /\ cat = None
                /\ MoreRecord /\ Call_metadata(t, name, args, MainThread)
          \/ id = None /\ scope = None /\ MoreRecord /\ Call_mark(t, name, args, cat, MainThread)
          \/ \E sync_id \in SyncIds, issue_ts \in IssueTs :
                id = None /\ scope = None /\ cat = None /\ args = None
                /\ MoreRecord /\ Call_clock_sync(t, name, sync_id, issue_ts, MainThread)
          \/ scope = None /\ cat = None /\ args = None
                /\ MoreRecord /\ Call_context_enter(t, name, id, MainThread)
          \/ scope = None /\ cat = None /\ args = None
                /\ MoreRecord /\ Call_context_leave(t, name, id, MainThread)

SpecRecord == InitRecord /\ [][NextRecord]_vars

\* Constructors and flushes run concurrently (threads or processes), one
\* line at a time; a tracer is called once its constructor has returned.

\* Lines 27-32 (streaming) or 27-31, 37-38 (buffered).
ctor_open(t, filename) ==
    /\ pc[t] = "new"
    /\ LET w0 == init_fields(World, t)
       IN IF truthy(filename)
          THEN /\ buffer' = w0.buffer
               /\ fp' = [w0.fp EXCEPT ![t] = file_object(filename.v)]
               /\ files' = [files EXCEPT ![filename.v] = open_append(@)]
               /\ kinds' = [kinds EXCEPT ![filename.v] = @ \cup {"open"}]
               /\ pc' = [pc EXCEPT ![t] = "seek"]
          ELSE /\ buffer' = [w0.buffer EXCEPT ![t] = PyList(<<>>)]
               /\ fp' = w0.fp
               /\ UNCHANGED <<files, kinds>>
               /\ pc' = [pc EXCEPT ![t] = "ready"]
    /\ depths' = [depths EXCEPT ![t] = NoDepths]
    /\ built' = [built EXCEPT ![t] = filename]
    /\ UNCHANGED <<pid, clock, frame, ncalls, last, calls, sent, emitted, dropped, handed>>

\* Line 33.
ctor_seek(t) ==
    /\ pc[t] = "seek"
    /\ fp' = [fp EXCEPT ![t] = fp_seek_end(@, files[@.name])]
    /\ pc' = [pc EXCEPT ![t] = "tell"]
    /\ UNCHANGED <<buffer, depths, pid, files, clock, frame, hist>>

\* Lines 34-35.
ctor_tell(t) ==
    /\ pc[t] = "tell"
    /\ IF fp_tell(fp[t]) = 0
       THEN /\ fp' = [fp EXCEPT ![t] = fp_write(@, <<Ch("["), Ch("\n")>>)]
            /\ pc' = [pc EXCEPT ![t] = "flush"]
       ELSE /\ fp' = fp
            /\ pc' = [pc EXCEPT ![t] = "ready"]
    /\ UNCHANGED <<buffer, depths, pid, files, clock, frame, hist>>

\* Line 36.
ctor_flush(t) ==
    /\ pc[t] = "flush"
    /\ files' = [files EXCEPT ![fp[t].name] = fp_flush_file(fp[t], @)]
    /\ fp' = [fp EXCEPT ![t] = fp_flush(@)]
    /\ pc' = [pc EXCEPT ![t] = "ready"]
    /\ UNCHANGED <<buffer, depths, pid, clock, frame, hist>>

\* flush run concurrently with other callers, one line at a time.

\* Lines 59-63: the buffer is encoded and reset before the file is opened.
flush_dumps(t, filename) ==
    /\ Ready(t)
    /\ ncalls' = ncalls + 1
    /\ IF buffer[t] = None
       THEN /\ last' = [op |-> "flush", t |-> t, in |-> [filename |-> filename],
                        raised |-> "Exception", made |-> <<>>]
            /\ UNCHANGED <<buffer, pc, frame>>
       ELSE IF ~json_serializable(buffer[t])
       THEN /\ last' = [op |-> "flush", t |-> t, in |-> [filename |-> filename],
                        raised |-> "TypeError", made |-> <<>>]
            /\ UNCHANGED <<buffer, pc, frame>>
       ELSE /\ last' = [op |-> "flush", t |-> t, in |-> [filename |-> filename],
                        raised |-> "", made |-> <<>>]
            /\ frame' = [frame EXCEPT ![t] = [filename |-> filename,
                                               encoded |-> json_dumps(buffer[t]),
                                               fp |-> None]]
            /\ buffer' = [buffer EXCEPT ![t] = PyList(<<>>)]
            /\ pc' = [pc EXCEPT ![t] = "flush_open"]
    /\ UNCHANGED <<fp, depths, pid, files, clock,
                   calls, sent, kinds, emitted, dropped, handed, built>>

\* Line 65.
flush_open(t) ==
    /\ pc[t] = "flush_open"
    /\ IF open_fails(frame[t].filename.v)
       THEN /\ last' = [last EXCEPT !.op = "flush", !.t = t,
                                    !.in = [filename |-> frame[t].filename],
                                    !.raised = "FileNotFoundError", !.made = <<>>]
            /\ dropped' = [dropped EXCEPT ![t] = TRUE]
            /\ calls' = [calls EXCEPT ![t] = <<>>]
            /\ frame' = [frame EXCEPT ![t] = NoFrame]
            /\ pc' = [pc EXCEPT ![t] = "ready"]
            /\ UNCHANGED <<files, kinds>>
       ELSE /\ files' = [files EXCEPT ![frame[t].filename.v] = open_append(@)]
            /\ frame' = [frame EXCEPT ![t].fp = file_object(frame[t].filename.v)]
            /\ pc' = [pc EXCEPT ![t] = "flush_seek"]
            /\ UNCHANGED <<last, dropped, calls, kinds>>
    /\ UNCHANGED <<buffer, fp, depths, pid, clock, ncalls, sent, emitted, handed, built>>

\* Line 67.
flush_seek(t) ==
    /\ pc[t] = "flush_seek"
    /\ frame' = [frame EXCEPT ![t].fp = fp_seek_end(@, files[@.name])]
    /\ pc' = [pc EXCEPT ![t] = "flush_write"]
    /\ UNCHANGED <<buffer, fp, depths, pid, files, clock, hist>>

\* Lines 68-71.
flush_write(t) ==
    /\ pc[t] = "flush_write"
    /\ frame' = [frame EXCEPT ![t].fp =
                    fp_write(@, flush_text(frame[t].encoded, fp_tell(@)))]
    /\ pc' = [pc EXCEPT ![t] = "flush_flush"]
    /\ UNCHANGED <<buffer, fp, depths, pid, files, clock, hist>>

\* Line 72, and the end of the `with` block.
flush_flush(t) ==
    /\ pc[t] = "flush_flush"
    /\ LET p == frame[t].fp.name
       IN /\ files' = [files EXCEPT ![p] = fp_flush_file(frame[t].fp, @)]
          /\ sent' = [sent EXCEPT ![p] = @ \o calls[t]]
          /\ handed' = [handed EXCEPT ![p] = @ \o DictsIn(frame[t].encoded)]
          /\ kinds' = [kinds EXCEPT ![p] =
                          @ \cup {IF Len(calls[t]) = 0 THEN "emptyflush" ELSE "flush"}]
    /\ calls' = [calls EXCEPT ![t] = <<>>]
    /\ frame' = [frame EXCEPT ![t] = NoFrame]
    /\ pc' = [pc EXCEPT ![t] = "ready"]
    /\ UNCHANGED <<buffer, fp, depths, pid, clock, ncalls, last, emitted, dropped, built>>

InitRace == InitWith(Unbuilt, [t \in {} |-> None])

NextRace ==
    \/ \E t \in Tracers, fn \in {None, PyStr(TracePath)} : ctor_open(t, fn)
    \/ \E t \in Tracers : ctor_seek(t)
    \/ \E t \in Tracers : ctor_tell(t)
    \/ \E t \in Tracers : ctor_flush(t)
    \/ /\ ncalls < MaxRaceCalls
       /\ \E t \in Tracers :
             Call_complete(t, PyInt(0), PyInt(1), A, None, None, MainThread)
    \/ \E t \in Tracers : ncalls < MaxRaceCalls /\ flush_dumps(t, PyStr(TracePath))
    \/ \E t \in Tracers : flush_open(t)
    \/ \E t \in Tracers : flush_seek(t)
    \/ \E t \in Tracers : flush_write(t)
    \/ \E t \in Tracers : flush_flush(t)

SpecRace == InitRace /\ [][NextRace]_vars

\* ----------------------------------------------------------------- claims

\* The phase code of each emission operation (the trace event format).
PhaseCode ==
    [begin |-> "B", end |-> "E", complete |-> "X", instant |-> "I",
     counter |-> "C", async_start |-> "b", async_instant |-> "n",
     async_end |-> "e", flow_start |-> "s", flow_instant |-> "t",
     flow_end |-> "f", object_created |-> "N", object_snapshot |-> "O",
     object_destroyed |-> "D", metadata |-> "M", mark |-> "R",
     clock_sync |-> "c", context_enter |-> "(", context_leave |-> ")"]

EmissionOps == DOMAIN PhaseCode

\* A step that is one whole call of `op`.
CallStep(op) == ncalls' = ncalls + 1 /\ last'.op = op

\* The records a step committed to tracer t's sink, and whether the step
\* left what the sink held before in place.
NewRecords(t) ==
    IF buffer[t] # None
    THEN SubSeq(buffer'[t].v, Len(buffer[t].v) + 1, Len(buffer'[t].v))
    ELSE DictsIn(SubSeq(files'[fp[t].name].data,
                        Len(files[fp[t].name].data) + 1,
                        Len(files'[fp[t].name].data)))

KeptRecords(t) ==
    IF buffer[t] # None
    THEN /\ buffer'[t] # None
         /\ Len(buffer'[t].v) >= Len(buffer[t].v)
         /\ SubSeq(buffer'[t].v, 1, Len(buffer[t].v)) = buffer[t].v
    ELSE /\ Len(files'[fp[t].name].data) >= Len(files[fp[t].name].data)
         /\ SubSeq(files'[fp[t].name].data, 1, Len(files[fp[t].name].data))
               = files[fp[t].name].data

Buffered(t) == pc[t] = "ready" /\ buffer[t] # None
Streaming(t) == pc[t] = "ready" /\ fp[t] # None

\* C1: a buffered tracer's buffer holds exactly one record per emission call
\* made on it since it was last drained, in call order, each with the phase
\* code of its call; and an emission call (or a clear) only appends: the
\* records already in the buffer stay where they are, unchanged.
C1_BufferMatchesCalls ==
    \A t \in Tracers :
        Buffered(t) =>
            /\ Len(buffer[t].v) = Len(calls[t])
            /\ \A i \in 1..Len(calls[t]) :
                  buffer[t].v[i].v.ph = PyStr(PhaseCode[calls[t][i].op])

C1_EmissionOnlyAppends ==
    \A t \in Tracers :
        (Buffered(t) /\ ncalls' = ncalls + 1 /\ last'.t = t
            /\ last'.op \in EmissionOps \cup {"clear"})
        => /\ KeptRecords(t)
           /\ Len(NewRecords(t)) = Len(last'.made)

C1_BufferedEmission == [](C1_BufferMatchesCalls) /\ [][C1_EmissionOnlyAppends]_vars

C1_Witness ==
    \E t \in Tracers :
        /\ Buffered(t)
        /\ Len(buffer[t].v) = 3
        /\ calls[t][1].op = "begin"
        /\ calls[t][2].op = "end"
        /\ calls[t][3].op = "counter"

\* C2: clear() on a tracer whose depth for the current process is N >= 0
\* commits exactly N more records, each with ph "E" and no name, cat or args
\* key, leaves the depth at 0 and raises nothing; clear() on a tracer with no
\* depth entry for the current process commits nothing, raises nothing and
\* creates no entry.
C2_ClearStep ==
    CallStep("clear") =>
        LET t == last'.t
            p == pid[t]
        IN /\ last'.raised = ""
           /\ KeptRecords(t)
           /\ IF p \in DOMAIN depths[t]
              THEN depths[t][p] >= 0 =>
                      /\ Len(NewRecords(t)) = depths[t][p]
                      /\ \A i \in 1..Len(NewRecords(t)) :
                            /\ NewRecords(t)[i].v.ph = PyStr("E")
                            /\ DOMAIN NewRecords(t)[i].v = {"ph", "ts", "pid", "tid"}
                      /\ depths'[t][p] = 0
              ELSE /\ Len(NewRecords(t)) = 0
                   /\ p \notin DOMAIN depths'[t]
                   /\ buffer' = buffer /\ files' = files /\ depths' = depths

C2_ClearClosesOpenSpans == [][C2_ClearStep]_vars

C2_Witness ==
    /\ last.op = "clear"
    /\ Len(last.made) = 2
    /\ depths[last.t][pid[last.t]] = 0
    /\ Cardinality(DOMAIN depths[last.t]) = 2

\* How often character c stands in a text.
CountCh(text, c) == Len(SelectSeq(text, LAMBDA k : IsCh(k, c)))

\* Only streaming tracers have written to path p.
StreamedOnly(p) == "open" \in kinds[p] /\ kinds[p] \subseteq {"open", "emit"}

\* The text of p is "[\n" followed by one "<object>,\n" per record sent to p,
\* the i-th object being the record of the i-th call.
StreamFormat(p) ==
    LET data == files[p].data
        n == Len(sent[p])
    IN /\ Len(data) = 2 + 3 * n
       /\ IsCh(data[1], "[")
       /\ IsCh(data[2], "\n")
       /\ \A i \in 1..n :
             /\ IsObj(data[3 * i])
             /\ IsCh(data[3 * i + 1], ",")
             /\ IsCh(data[3 * i + 2], "\n")
             /\ python_value(data[3 * i].o).v.ph = PyStr(PhaseCode[sent[p][i].op])
             /\ python_value(data[3 * i].o).v.ts = PyInt(sent[p][i].now)

\* The finalized text of p is a JSON array of as many objects as records
\* were sent to p.
FinalizesToSent(p) ==
    LET loaded == json_loads(finished_data(files[p].data))
    IN loaded.ok /\ Len(loaded.v) = Len(sent[p])

\* C3 as stated: with only streaming tracers on a path, at every point the
\* text is "[\n" plus one "<object>,\n" per emission call, and it finalizes
\* to a valid JSON array of that many objects.
C3_AsStated ==
    \A p \in Paths : StreamedOnly(p) => StreamFormat(p) /\ FinalizesToSent(p)

\* C3, amended: with only streaming tracers on a path, at every point the
\* text is "[\n" plus one "<object>,\n" per emission call that wrote, in call
\* order; and once at least one record has been written it finalizes to a
\* valid JSON array of that many objects.
C3_StreamingFile ==
    \A p \in Paths :
        StreamedOnly(p) =>
            /\ StreamFormat(p)
            /\ Len(sent[p]) >= 1 => FinalizesToSent(p)

C3_Witness ==
    /\ StreamedOnly(TracePath)
    /\ Len(sent[TracePath]) >= 3
    /\ \A t \in Tracers :
          /\ Streaming(t)
          /\ \E i \in 1..Len(sent[TracePath]) : sent[TracePath][i].t = t
    /\ \E i \in 1..Len(sent[TracePath]) : sent[TracePath][i].op = "end"

\* Only flushes of non-empty buffers have written to path p.
FlushedOnly(p) == kinds[p] = {"flush"}

\* C4: when only flushes of non-empty buffers have written to a path, its
\* text holds one opening bracket, at its start, and finalizes to a valid
\* JSON array of exactly the dicts flushed, in flush order and, within one
\* flush, in buffer order.
C4_FlushedFile ==
    \A p \in Paths :
        FlushedOnly(p) =>
            LET data == files[p].data
                loaded == json_loads(finished_data(data))
            IN /\ CountCh(data, "[") = 1
               /\ IsCh(data[1], "[")
               /\ loaded.ok
               /\ loaded.v = handed[p]

C4_Witness ==
    /\ FlushedOnly(TracePath)
    /\ Len(handed[TracePath]) = 3
    /\ \A t \in Tracers : \E i \in 1..3 : sent[TracePath][i].t = t
    /\ last.op = "flush"

\* C5: flush on a tracer constructed with a file name raises, and the call
\* leaves every file, and the tracer's buffer, file object and depth map, as
\* they were.
C5_FlushStep ==
    (CallStep("flush") /\ built[last'.t] \notin {None, PyStr("")})
    => /\ last'.raised # ""
       /\ files' = files
       /\ buffer' = buffer
       /\ fp' = fp
       /\ depths' = depths

C5_FlushUnbuffered == [][C5_FlushStep]_vars

C5_Witness ==
    /\ last.op = "flush"
    /\ Streaming(last.t)
    /\ last.raised = "Exception"
    /\ Len(files[TracePath].data) > 2
    /\ pid[last.t] \in DOMAIN depths[last.t]

\* How often a record with timestamp ts stands in a list of dicts.
CountTs(recs, ts) == Len(SelectSeq(recs, LAMBDA r : r.v.ts = PyInt(ts)))

\* C6: on a buffered tracer none of whose flushes failed after draining, the
\* buffer is empty right after a successful flush, and every record emitted
\* so far is in exactly one place: still in the buffer, or written once to a
\* file.
C6_FlushedExactlyOnce ==
    \A t \in Tracers :
        (Buffered(t) /\ ~dropped[t]) =>
            /\ (last.op = "flush" /\ last.t = t /\ last.raised = "")
                  => buffer[t].v = <<>>
            /\ \A i \in 1..Len(emitted[t]) :
                  CountTs(buffer[t].v, emitted[t][i].now)
                  + CountTs(DictsIn(files[TracePath].data), emitted[t][i].now) = 1

C6_Witness ==
    \E t \in Tracers :
        /\ Buffered(t)
        /\ ~dropped[t]
        /\ last.op = "flush" /\ last.t = t /\ last.raised = ""
        /\ Len(emitted[t]) = 3
        /\ Len(handed[TracePath]) = 3
        /\ CountCh(files[TracePath].data, " ") = 1

\* C9: a constructed tracer has exactly one sink, and it is the one its
\* constructor chose: the file object if a (non-empty) file name was given,
\* the buffer if none was; no call, failed or not, changes that.
C9_OneSink ==
    \A t \in Tracers :
        pc[t] = "ready" =>
            /\ (buffer[t] = None) # (fp[t] = None)
            /\ (built[t] \notin {None, PyStr("")}) <=> (fp[t] # None)
            /\ (built[t] \in {None, PyStr("")}) <=> (buffer[t] # None)

C9_Witness ==
    /\ ncalls >= 4
    /\ \E t \in Tracers : Streaming(t) /\ built[t] = PyStr(TracePath)
    /\ \E t \in Tracers : Buffered(t) /\ dropped[t] /\ built[t] = None
    /\ last.op = "flush" /\ last.raised = "Exception"

\* The record the latest call on tracer t committed last.
LastRecord(t) ==
    IF buffer[t] # None
    THEN buffer[t].v[Len(buffer[t].v)]
    ELSE LET recs == DictsIn(files[fp[t].name].data) IN recs[Len(recs)]

\* C7 as stated: after any emission call, each of name, cat, args, id and
\* scope is a key of the record exactly if the caller supplied it (a value
\* other than None, falsy ones included), then with the value supplied; and
\* ph, ts, pid and tid are keys of every record.
C7_AsStated ==
    (ncalls >= 1 /\ last.op \in EmissionOps) =>
        LET rec == LastRecord(last.t).v
        IN /\ {"ph", "ts", "pid", "tid"} \subseteq DOMAIN rec
           /\ \A k \in {"name", "cat", "args", "id", "scope"} :
                 LET supplied == k \in DOMAIN last.in /\ last.in[k] # None
                 IN /\ (k \in DOMAIN rec) <=> supplied
                    /\ supplied => rec[k] = last.in[k]

\* C8: complete commits exactly one record, with ph "X", whose ts is the
\* start and whose dur is the duration the caller supplied, with no cat or
\* args key when those were not supplied; every other emission operation
\* commits one record whose ts is the clock value read during the call.
C8_EmissionStep ==
    (ncalls' = ncalls + 1 /\ last'.op \in EmissionOps) =>
        LET t == last'.t
            recs == NewRecords(t)
        IN /\ KeptRecords(t)
           /\ Len(recs) = 1
           /\ recs[1].v.ph = PyStr(PhaseCode[last'.op])
           /\ IF last'.op = "complete"
              THEN /\ recs[1].v.ts = last'.in.start
                   /\ recs[1].v.dur = last'.in.duration
                   /\ last'.in.cat = None => "cat" \notin DOMAIN recs[1].v
                   /\ last'.in.args = None => "args" \notin DOMAIN recs[1].v
                   /\ last'.in.name # None => recs[1].v.name = last'.in.name
              ELSE recs[1].v.ts = PyInt(clock)

C8_CompleteTimestamp == [][C8_EmissionStep]_vars

C8_Witness ==
    /\ last.op = "complete"
    /\ last.in.start = PyInt(0)
    /\ last.in.duration = PyInt(50)
    /\ last.in.cat = None
    /\ last.in.args = None
    /\ last.in.name = A
    /\ LastRecord(last.t).v.ts = PyInt(0)
    /\ clock > 1000

\* C10 as stated: however the constructors of the tracers streaming to one
\* path interleave, the path's text never holds a second "[", and once the
\* constructors have returned it begins with "[\n".
C10_AsStated ==
    \A p \in Paths :
        LET data == files[p].data
            opened == {t \in Tracers : built[t] = PyStr(p)}
        IN /\ CountCh(data, "[") <= 1
           /\ (opened # {} /\ \A t \in opened : pc[t] = "ready")
                 => /\ Len(data) >= 2
                    /\ IsCh(data[1], "[")
                    /\ IsCh(data[2], "\n")

\* C11 as stated: end() on a tracer with no depth entry for the current
\* process raises nothing, commits exactly one record, with ph "E", and
\* leaves the depth for the process at -1.
C11_EndStep ==
    (CallStep("end") /\ pid[last'.t] \notin DOMAIN depths[last'.t]) =>
        LET t == last'.t
            p == pid[t]
        IN /\ last'.raised = ""
           /\ KeptRecords(t)
           /\ Len(NewRecords(t)) = 1
           /\ NewRecords(t)[1].v.ph = PyStr("E")
           /\ p \in DOMAIN depths'[t]
           /\ depths'[t][p] = -1

C11_AsStated == [][C11_EndStep]_vars

\* C12 as stated: once clear() has returned on a tracer that has a depth
\* entry for the current process, the entry is there and is 0, whatever
\* begin and end calls came before (more end calls than begin calls too).
C12_AsStated ==
    (ncalls >= 1 /\ last.op = "clear" /\ last.raised = ""
        /\ pid[last.t] \in DOMAIN depths[last.t])
    => depths[last.t][pid[last.t]] = 0

\* C16: clear() returns, raising nothing; on a depth N > 0 for the current
\* process it has called end exactly N times, and on a depth that is 0,
\* negative or absent it has not called end at all (and has changed nothing).
C16_ClearStep ==
    CallStep("clear") =>
        LET t == last'.t
            p == pid[t]
            n == IF p \in DOMAIN depths[t] THEN depths[t][p] ELSE 0
        IN /\ last'.raised = ""
           /\ \A i \in 1..Len(last'.made) : last'.made[i].op = "end"
           /\ IF n > 0
              THEN /\ Len(last'.made) = n
                   /\ clock' = clock + n
              ELSE /\ Len(last'.made) = 0
                   /\ real' = real

C16_ClearTerminates == [][C16_ClearStep]_vars

C16_Witness ==
    /\ last.op = "clear"
    /\ Len(last.made) = 3
    /\ last.raised = ""
    /\ depths[last.t][pid[last.t]] = 0

\* C13 as stated: an emission call whose args hold a value JSON cannot
\* encode raises from that very call, on a buffered tracer as on a streaming
\* one, and leaves every buffer, every file and every depth map as it was.
C13_EmissionStep ==
    (ncalls' = ncalls + 1 /\ last'.op \in EmissionOps
        /\ "args" \in DOMAIN last'.in /\ ~json_serializable(last'.in.args))
    => /\ last'.raised # ""
       /\ buffer' = buffer
       /\ files' = files
       /\ depths' = depths

C13_AsStated == [][C13_EmissionStep]_vars

\* C14 as stated: once a flush of an empty buffer has written to a path,
\* then and after every later flush or streaming append to it, the path's
\* text finalizes to a valid JSON array of exactly the records written to it.
C14_AsStated ==
    \A p \in Paths :
        "emptyflush" \in kinds[p] =>
            LET loaded == json_loads(finished_data(files[p].data))
            IN /\ loaded.ok
               /\ Len(loaded.v) = Len(sent[p])
               /\ \A i \in 1..Len(loaded.v) : loaded.v[i].v.ts = PyInt(sent[p][i].now)

\* C17 as stated: a flush that raises on a buffered tracer leaves the buffer
\* holding every record it held, so that at every point each record emitted
\* on a buffered tracer is in its buffer or in a file.
C17_FlushStep ==
    (CallStep("flush") /\ buffer[last'.t] # None /\ last'.raised # "")
    => buffer'[last'.t] = buffer[last'.t]

C17_NothingLost ==
    \A t \in Tracers :
        Buffered(t) =>
            \A i \in 1..Len(emitted[t]) :
                CountTs(buffer[t].v, emitted[t][i].now)
                + CountTs(DictsIn(files[TracePath].data), emitted[t][i].now) >= 1

C17_AsStated == [](C17_NothingLost) /\ [][C17_FlushStep]_vars

\* C19: a call of begin, end, clear or flush on one tracer leaves the depth
\* map and the buffer of every other tracer as they were, and clear() calls
\* end exactly as often as its own tracer's depth says, whatever the depths
\* of the other tracers are.
C19_Step ==
    (ncalls' = ncalls + 1 /\ last'.op \in {"begin", "end", "clear", "flush"}) =>
        LET t == last'.t
            p == pid[t]
        IN /\ \A u \in Tracers \ {t} :
                 /\ depths'[u] = depths[u]
                 /\ buffer'[u] = buffer[u]
           /\ last'.op = "clear" =>
                 Len(last'.made) =
                    IF p \in DOMAIN depths[t] /\ depths[t][p] > 0
                    THEN depths[t][p] ELSE 0

C19_NoInterference == [][C19_Step]_vars

C19_Witness ==
    /\ last.op = "clear"
    /\ last.t = "et1"
    /\ Len(last.made) = 2
    /\ Buffered("et2")
    /\ depths["et2"] = (pid["et2"] :> 1)
    /\ Len(buffer["et2"].v) = 1
    /\ buffer["et2"].v[1].v.ph = PyStr("B")

\* The depth of tracer t in its current process, 0 when there is no entry.
DepthOf(t) == IF pid[t] \in DOMAIN depths[t] THEN depths[t][pid[t]] ELSE 0

\* The emission calls made on tracer t so far (those clear() made included).
CallsOn(t) ==
    IF buffer[t] # None THEN emitted[t]
    ELSE SelectSeq(sent[fp[t].name], LAMBDA c : c.t = t)

CountOp(cs, op) == Len(SelectSeq(cs, LAMBDA c : c.op = op))

\* C15 as stated: begin adds 1 to the depth of the current process (from 0
\* when there is no entry), end subtracts 1, clear acts through end only, and
\* every other operation, flush included, leaves the depth map unchanged; so
\* between calls the depth is the number of begin calls minus the number of
\* end calls (explicit or synthetic) made on the tracer.
C15_Step ==
    (ncalls' = ncalls + 1) =>
        LET t == last'.t
            ends == CountOp(last'.made, "end")
        IN CASE last'.op = "begin" ->
                    depths'[t] = (pid[t] :> DepthOf(t) + 1) @@ depths[t]
             [] last'.op \in {"end", "clear"} ->
                    \/ ends = 0 /\ depths'[t] = depths[t]
                    \/ ends > 0 /\ depths'[t] = (pid[t] :> DepthOf(t) - ends) @@ depths[t]
             [] OTHER -> depths' = depths

C15_DepthCounts ==
    \A t \in Tracers :
        pc[t] = "ready" =>
            DepthOf(t) = CountOp(CallsOn(t), "begin") - CountOp(CallsOn(t), "end")

C15_AsStated == [](C15_DepthCounts) /\ [][C15_Step]_vars

\* A flush of tracer t is between its first and its last line.
Flushing(t) == pc[t] \in {"flush_open", "flush_seek", "flush_write", "flush_flush"}

\* C18 as stated: when buffered tracers flush their records to one empty
\* path concurrently, then however the lines of the flushes interleave, once
\* the flushes have returned the path's text holds exactly one opening
\* bracket and finalizes to a valid JSON array of the records of all of them.
C18_AsStated ==
    \A p \in Paths :
        (FlushedOnly(p) /\ \A t \in Tracers : ~Flushing(t)) =>
            LET data == files[p].data
                loaded == json_loads(finished_data(data))
            IN /\ CountCh(data, "[") = 1
               /\ loaded.ok
               /\ Len(loaded.v) = Len(handed[p])
               /\ \A i \in 1..Len(handed[p]) :
                     \E j \in 1..Len(loaded.v) : loaded.v[j] = handed[p][i]

====
